---- MODULE Spec2Model ----
(***************************************************************************)
(* PageRank (pagerank-pomme.py): transition_model, sample_pagerank and     *)
(* iterate_pagerank as state machines.                                     *)
(*                                                                         *)
(* Numbers.  A probability or a rank (a Python float) is a fixed-point     *)
(* integer in units of 1/Scale, every division rounding down.  A damping   *)
(* factor is a pair <<num, den>>.  The ranks sample_pagerank returns are   *)
(* kept as exact quotients <<count, n>>.  Rounding to a 53 bit mantissa is *)
(* not modelled.                                                           *)
(*                                                                         *)
(* A corpus (a dict page -> set of pages) is a sequence of sets of page    *)
(* numbers; the dict's iteration order is 1, 2, ..., Len(corpus).          *)
(***************************************************************************)
EXTENDS Integers, Sequences, FiniteSets

VARIABLES fn, corpus, damping_factor, n, pc, page, transitions, samples, i,
          pagerank, pagerank_prev, outcome

vars == <<fn, corpus, damping_factor, n, pc, page, transitions, samples, i,
          pagerank, pagerank_prev, outcome>>

\* ---------------------------------------------------------------- bounds
\* The largest corpus (pages, links) given to transition_model and
\* sample_pagerank, the largest given to iterate_pagerank, the largest
\* sample count, and the fixed-point resolution.
MaxPages == 3
MaxLinks == 3
MaxIterPages == 4
MaxIterLinks == 4
MaxSamples == 3
Precision == 5000

\* One unit (1.0).  A multiple of 240, so that 1/len(links), 1/N and their
\* products with the damping factors below are exact for up to 6 pages.
Scale == 240 * Precision

\* --------------------------------------------------------------- numbers
DAMPING == <<17, 20>>

ValidDampings == {<<0, 1>>, <<1, 2>>, DAMPING, <<1, 1>>}

InvalidDampings == {<<-1, 2>>}

InUnitInterval(d) == 0 <= d[1] /\ d[1] <= d[2]

\* damping_factor * x  and  (1 - damping_factor) * x
Damped(d, x) == (d[1] * x) \div d[2]

Undamped(d, x) == ((d[2] - d[1]) * x) \div d[2]

Abs(x) == IF x < 0 THEN -x ELSE x

RECURSIVE SumTo(_, _)
SumTo(f, k) == IF k = 0 THEN 0 ELSE f[k] + SumTo(f, k - 1)

\* sum of the values of a dict / list over the pages 1..Len
Sum(f) == SumTo(f, Len(f))

RECURSIVE MaxTo(_, _)
MaxTo(f, k) == IF k = 1 THEN f[1] ELSE
               LET m == MaxTo(f, k - 1) IN IF f[k] > m THEN f[k] ELSE m

\* --------------------------------------------------------------- corpora
Pages(c) == 1 .. Len(c)

LinkCount(c) == SumTo([q \in Pages(c) |-> Cardinality(c[q])], Len(c))

\* every link graph of at most maxN pages and maxL links whose link sets
\* are subsets of the keys (self-links included; the empty graph too)
Corpora(maxN, maxL) ==
    UNION { { c \in [1 .. N -> SUBSET (1 .. N)] : LinkCount(c) <= maxL }
            : N \in 0 .. maxN }

NoSelfLinks(c) == \A q \in Pages(c) : q \notin c[q]

\* what crawl() produces: non-empty keys, links inside the keys, no self-link
ValidCorpus(c) == Len(c) >= 1 /\ NoSelfLinks(c)

ValidCorpora(maxN, maxL) == { c \in Corpora(maxN, maxL) : ValidCorpus(c) }

\* ------------------------------------------------------ transition_model
\* the "start" node: P(damping) = damping_factor, P(non-damping) = 1 - it
StartProbabilitySwapped(d, branch, x) ==
    IF branch = "damping" THEN Undamped(d, x) ELSE Damped(d, x)

StartProbability(d, branch, x) ==
    IF branch = "damping" THEN Damped(d, x) ELSE Undamped(d, x)

\* the conditional probability table's line ["damping", item, .]
DampingLineUniform(c, p, item) ==
    IF c[p] = {} THEN Scale \div Len(c)
    ELSE IF item \in c[p] THEN Scale \div Cardinality(c[p]) ELSE 0

DampingLine(c, p, item) ==
    IF item \in c[p] THEN Scale \div Cardinality(c[p]) ELSE 0

\* the conditional probability table's line ["non-damping", item, .]
NonDampingLine(c, item) == Scale \div Len(c)

\* model.probability([[branch, item]]): P(start = branch) * P(item | branch)
Probability(c, p, d, branch, item) ==
    StartProbability(d, branch,
        IF branch = "damping" THEN DampingLine(c, p, item)
                              ELSE NonDampingLine(c, item))

transition_model(c, p, d) ==
    [item \in Pages(c) |->
        Probability(c, p, d, "damping", item) +
        Probability(c, p, d, "non-damping", item)]

\* ------------------------------------------------------------- the calls
Zeros(c) == [item \in Pages(c) |-> 0]

Idle ==
    /\ page = 0 /\ transitions = <<>> /\ samples = <<>> /\ i = 0
    /\ pagerank = <<>> /\ pagerank_prev = <<>>
    /\ pc = "start" /\ outcome = "none"

\* transition_model(corpus, page, damping_factor) on its documented inputs
InitTM ==
    /\ fn = "transition_model"
    /\ corpus \in ValidCorpora(MaxPages, MaxLinks)
    /\ damping_factor \in ValidDampings
    /\ n = 0
    /\ page \in Pages(corpus)
    /\ transitions = <<>> /\ samples = <<>> /\ i = 0
    /\ pagerank = <<>> /\ pagerank_prev = <<>>
    /\ pc = "start" /\ outcome = "none"

\* sample_pagerank(corpus, damping_factor, n)
InitSample ==
    /\ fn = "sample_pagerank"
    /\ corpus \in Corpora(MaxPages, MaxLinks)
    /\ damping_factor \in ValidDampings
    /\ n \in -1 .. MaxSamples
    /\ Idle

\* iterate_pagerank(corpus, damping_factor)
InitIter ==
    /\ fn = "iterate_pagerank"
    /\ corpus \in Corpora(MaxIterPages, MaxIterLinks)
    /\ damping_factor \in ValidDampings \cup InvalidDampings
    /\ n = 0
    /\ Idle

Init == InitTM \/ InitSample \/ InitIter

Finish(how) == pc' = "done" /\ outcome' = how

\* ------------------------------------------------------ transition_model
TransitionModel ==
    /\ fn = "transition_model" /\ pc = "start"
    /\ transitions' = transition_model(corpus, page, damping_factor)
    /\ Finish("returned")
    /\ UNCHANGED <<fn, corpus, damping_factor, n, page, samples, i,
                   pagerank, pagerank_prev>>

\* ------------------------------------------------------- sample_pagerank
\* lines 109-115: random.choice(list(corpus)) raises IndexError on an empty
\* corpus; otherwise any page may be the first
SampleStart ==
    /\ fn = "sample_pagerank" /\ pc = "start"
    /\ IF Len(corpus) = 0
       THEN /\ Finish("IndexError")
            /\ UNCHANGED <<page, transitions, samples>>
       ELSE /\ page' \in Pages(corpus)
            /\ transitions' = transition_model(corpus, page', damping_factor)
            /\ samples' = Zeros(corpus)
            /\ pc' = "loop"
            /\ UNCHANGED outcome
    /\ UNCHANGED <<fn, corpus, damping_factor, n, i, pagerank, pagerank_prev>>

\* samples[page] += 1
VisitSkipped(s, p) == s

Visit(s, p) == [s EXCEPT ![p] = @ + 1]

\* lines 118-122 with `drawn` the page random.choices returned
Sampled(drawn) ==
    /\ page' = drawn
    /\ samples' = Visit(samples, drawn)
    /\ transitions' = transition_model(corpus, drawn, damping_factor)
    /\ i' = i + 1
    /\ UNCHANGED <<pc, outcome>>

\* random.choices(keys, weights = probs)[0]: a key of positive weight
SampleStep ==
    /\ fn = "sample_pagerank" /\ pc = "loop" /\ i < n
    /\ Sum(transitions) > 0
    /\ \E drawn \in { q \in Pages(corpus) : transitions[q] > 0 } :
          Sampled(drawn)
    /\ UNCHANGED <<fn, corpus, damping_factor, n, pagerank, pagerank_prev>>

\* random.choices when the weights total zero: ValueError since Python 3.9
SampleStepZeroWeightsRaise ==
    /\ fn = "sample_pagerank" /\ pc = "loop" /\ i < n
    /\ Sum(transitions) <= 0
    /\ Finish("ValueError")
    /\ UNCHANGED <<fn, corpus, damping_factor, n, page, transitions, samples,
                   i, pagerank, pagerank_prev>>

\* ... and before Python 3.9 bisect lands on the last key
SampleStepZeroWeightsLast ==
    /\ fn = "sample_pagerank" /\ pc = "loop" /\ i < n
    /\ Sum(transitions) <= 0
    /\ Sampled(Len(corpus))
    /\ UNCHANGED <<fn, corpus, damping_factor, n, pagerank, pagerank_prev>>

\* lines 124-129: value / n for every page, ZeroDivisionError when n = 0
SampleReturn ==
    /\ fn = "sample_pagerank" /\ pc = "loop" /\ i >= n
    /\ IF n = 0
       THEN Finish("ZeroDivisionError") /\ UNCHANGED pagerank
       ELSE /\ pagerank' = [item \in Pages(corpus) |-> <<samples[item], n>>]
            /\ Finish("returned")
    /\ UNCHANGED <<fn, corpus, damping_factor, n, page, transitions, samples,
                   i, pagerank_prev>>

\* ------------------------------------------------------ iterate_pagerank
\* the convergence threshold 0.001
Threshold == Scale \div 1000

\* lines 141-146: every page starts at 1 / N, pagerank_prev at 0
InitialRanks(c) == [item \in Pages(c) |-> Scale \div Len(c)]

IterStart ==
    /\ fn = "iterate_pagerank" /\ pc = "start"
    /\ pagerank' = InitialRanks(corpus)
    /\ pagerank_prev' = Zeros(corpus)
    /\ page' = 1
    /\ pc' = "sweep"
    /\ UNCHANGED <<fn, corpus, damping_factor, n, transitions, samples, i,
                   outcome>>

\* lines 152-155: what page `key` adds to the rank of page p
Contribution(c, r, key, p) ==
    (IF Cardinality(c[key]) = 0 THEN r[key] \div Len(c) ELSE 0) +
    (IF p \in c[key] THEN r[key] \div Cardinality(c[key]) ELSE 0)

\* lines 150-157: the new rank of page p, read from the ranks r
NewRank(c, r, p, d) ==
    Undamped(d, Scale) +
    Damped(d, Sum([key \in Pages(c) |-> Contribution(c, r, key, p)]))

\* one pass of the inner body of `for page in corpus`: pagerank[page] is
\* overwritten in place, so the pages after it read the new value
IterUpdate ==
    /\ fn = "iterate_pagerank" /\ pc = "sweep" /\ page <= Len(corpus)
    /\ pagerank' = [pagerank EXCEPT
                      ![page] = NewRank(corpus, pagerank, page, damping_factor)]
    /\ page' = page + 1
    /\ UNCHANGED <<fn, corpus, damping_factor, n, pc, transitions, samples, i,
                   pagerank_prev, outcome>>

\* line 159: max(|pagerank_prev[key] - pagerank[key]|)
Diff(prev, cur) ==
    MaxTo([key \in Pages(cur) |-> Abs(prev[key] - cur[key])], Len(cur))

\* line 159 on an empty corpus: max([]) raises ValueError
IterCheckEmpty ==
    /\ fn = "iterate_pagerank" /\ pc = "sweep" /\ page > Len(corpus)
    /\ Len(corpus) = 0
    /\ Finish("ValueError")
    /\ UNCHANGED <<fn, corpus, damping_factor, n, page, transitions, samples,
                   i, pagerank, pagerank_prev>>

\* lines 159-160: the sweep is over and the change is below the threshold
IterConverged ==
    /\ fn = "iterate_pagerank" /\ pc = "sweep" /\ page > Len(corpus)
    /\ Len(corpus) > 0
    /\ Diff(pagerank_prev, pagerank) < Threshold
    /\ pc' = "normalize"
    /\ UNCHANGED <<fn, corpus, damping_factor, n, page, transitions, samples,
                   i, pagerank, pagerank_prev, outcome>>

\* lines 160-161 and back to 149: copy the ranks and sweep again
IterAgain ==
    /\ fn = "iterate_pagerank" /\ pc = "sweep" /\ page > Len(corpus)
    /\ Len(corpus) > 0
    /\ ~(Diff(pagerank_prev, pagerank) < Threshold)
    /\ pagerank_prev' = pagerank
    /\ page' = 1
    /\ UNCHANGED <<fn, corpus, damping_factor, n, pc, transitions, samples, i,
                   pagerank, outcome>>

\* lines 163-166: divide every rank by N and return
IterReturn ==
    /\ fn = "iterate_pagerank" /\ pc = "normalize"
    /\ pagerank' = [key \in Pages(corpus) |-> pagerank[key] \div Len(corpus)]
    /\ Finish("returned")
    /\ UNCHANGED <<fn, corpus, damping_factor, n, page, transitions, samples,
                   i, pagerank_prev>>

\* -------------------------------------------------------- specifications
NextTM == TransitionModel

NextSample ==
    \/ SampleStart
    \/ SampleStep
    \/ SampleStepZeroWeightsRaise
    \/ SampleStepZeroWeightsLast
    \/ SampleReturn

NextIter ==
    \/ IterStart
    \/ IterUpdate
    \/ IterCheckEmpty
    \/ IterConverged
    \/ IterAgain
    \/ IterReturn

Next == NextTM \/ NextSample \/ NextIter

Spec == Init /\ [][Next]_vars

SpecTM == InitTM /\ [][NextTM]_vars

SpecSample == InitSample /\ [][NextSample]_vars

SpecIter == InitIter /\ [][NextIter]_vars

\* the loop of iterate_pagerank runs on as long as it can: nothing suspends it
FairSpecIter == SpecIter /\ WF_vars(NextIter)

\* ================================================================ claims
IsTM == fn = "transition_model"

IsSample == fn = "sample_pagerank"

IsIter == fn = "iterate_pagerank"

ValidInputs == ValidCorpus(corpus) /\ InUnitInterval(damping_factor)

Links == corpus[page]

Dangling == Links = {}

\* C1: for a valid graph, any page of it (dangling ones too) and a damping
\* factor in [0,1], the distribution transition_model returns sums to 1.0.
C1_TransitionSumsToOne ==
    (IsTM /\ pc = "done" /\ ValidInputs) => Sum(transitions) = Scale

\* C8: with damping = 0 transition_model gives every page exactly 1/N,
\* whatever the graph and the current page.
C8_ZeroDampingUniform ==
    (IsTM /\ pc = "done" /\ ValidInputs /\ damping_factor[1] = 0) =>
        /\ DOMAIN transitions = Pages(corpus)
        /\ \A q \in Pages(corpus) : transitions[q] * Len(corpus) = Scale

\* a page with links, in a corpus of three pages or more, at damping 0
C8_Witness ==
    /\ IsTM /\ pc = "done" /\ damping_factor[1] = 0
    /\ Len(corpus) >= 3 /\ Cardinality(Links) = 1
    /\ \A q \in Pages(corpus) : transitions[q] * Len(corpus) = Scale

C3_VisitCountsPartition ==
    (IsSample /\ n >= 1 /\ Len(corpus) >= 1) =>
        /\ pc = "loop" => Sum(samples) = i /\ i <= n
        /\ outcome = "returned" =>
             /\ DOMAIN pagerank = Pages(corpus)
             /\ \A q \in Pages(corpus) : pagerank[q] = <<samples[q], n>>
             /\ Sum(samples) = n

\* MaxSamples draws that visited at least two pages, and the ranks returned
C3_Witness ==
    /\ IsSample /\ n = MaxSamples /\ outcome = "returned"
    /\ Sum(samples) = n
    /\ \E q, r \in Pages(corpus) : q # r /\ samples[q] > 0 /\ samples[r] > 0

\* C9: sample_pagerank with n = 1 returns, for every valid graph, damping in
\* [0,1] and random draw, a vector with one page at rank 1 and the rest at 0;
\* the initially chosen page is not counted as a visit.
C9_SingleSampleOnePage ==
    (IsSample /\ n = 1 /\ ValidInputs /\ pc = "done") =>
        /\ outcome = "returned"
        /\ \E q \in Pages(corpus) :
              /\ pagerank[q] = <<1, 1>>
              /\ \A r \in Pages(corpus) \ {q} : pagerank[r] = <<0, 1>>

\* C4: n <= 0 (sample_pagerank) or a damping factor outside [0,1] (either
\* estimator) ends in an error before any sampling or iteration step, and no
\* rank vector is returned.
C4_InvalidParametersRejected ==
    (/\ ValidCorpus(corpus)
     /\ \/ IsSample /\ (n <= 0 \/ ~InUnitInterval(damping_factor))
        \/ IsIter /\ ~InUnitInterval(damping_factor)) =>
        /\ outcome # "returned"
        /\ IsSample => i = 0
        /\ (IsIter /\ pc = "sweep") => page = 1 /\ pagerank = InitialRanks(corpus)

\* C5: an empty graph, or one with a self-link, makes both estimators fail
\* before any transition-model evaluation, draw or sweep; no rank vector is
\* returned.
C5_InvalidCorpusRejected ==
    (/\ ~ValidCorpus(corpus)
     /\ InUnitInterval(damping_factor)
     /\ (IsSample /\ n >= 1) \/ IsIter) =>
        /\ outcome # "returned"
        /\ transitions = <<>>
        /\ IsSample => i = 0
        /\ (IsIter /\ pc = "sweep" /\ Len(corpus) > 0) => page = 1

\* the vector a sweep started from: 1/N in the first sweep, pagerank_prev
\* (copied at line 161) in the later ones
SweepStart ==
    IF pagerank_prev = Zeros(corpus) THEN InitialRanks(corpus)
                                     ELSE pagerank_prev

\* C2: for a valid graph and a damping factor in [0,1], the vector held when
\* the loop exits sums to N within N * 1e-6, and the returned vector has one
\* entry per page and sums to 1.0 within 1e-6.
C2_IterateSumsToOne ==
    (IsIter /\ ValidInputs) =>
        /\ pc = "normalize" =>
             Abs(Sum(pagerank) - Len(corpus) * Scale)
                 <= (Len(corpus) * Scale) \div 1000000
        /\ outcome = "returned" =>
             /\ DOMAIN pagerank = Pages(corpus)
             /\ Abs(Sum(pagerank) - Scale) <= Scale \div 1000000

\* C6: iterate_pagerank sweeps synchronously: the pages already updated in a
\* sweep hold the value computed from the vector the sweep started from, and
\* the others still hold that vector's value.
C6_SynchronousSweep ==
    (IsIter /\ ValidInputs /\ pc = "sweep") =>
        \A q \in Pages(corpus) :
            pagerank[q] = IF q < page
                          THEN NewRank(corpus, SweepStart, q, damping_factor)
                          ELSE SweepStart[q]

\* C7: for a valid graph and a damping factor in [0,1], the loop of
\* iterate_pagerank reaches a sweep that changes no page by 0.001 or more,
\* and the function returns.
C7_IterateTerminates ==
    (IsIter /\ ValidInputs) => <>(pc = "done" /\ outcome = "returned")

====
